---- MODULE Spec2Model ----
(***************************************************************************)
(* A model of src/pal/src/misc/cgroup.cpp: the discovery of the cgroup v1   *)
(* memory and cpu directories of the current process, the readers of the   *)
(* control files, and the three public queries                             *)
(* PAL_GetRestrictedPhysicalMemoryLimit, PAL_GetCpuLimit and                *)
(* PAL_GetWorkingSetSize.                                                   *)
(*                                                                         *)
(* A C string is a sequence of one-character strings.  The files the code  *)
(* reads are inputs: their content is drawn when the code opens them.      *)
(* The model is of a release build, in which _ASSERTE expands to nothing.  *)
(***************************************************************************)
EXTENDS Integers, Sequences, FiniteSets, TLC

(***************************************************************************)
(* Bounds of the model.                                                    *)
(***************************************************************************)
\* the longest mountinfo / cgroup listing that is scanned
MaxLines == 2
\* the width of UINT in the model (the program's is 32; TLC's integers are
\* 32-bit signed, so the clamp of GetCpuLimit is exercised at a narrower width)
UINT_BITS == 16

(***************************************************************************)
(* Integer widths.  size_t is modelled with 31 bits, the one width that    *)
(* both holds the multiplier 1024^3 of ReadMemoryValueFromFile and fits    *)
(* TLC's integers.  unsigned long long is as wide as size_t on an LP64     *)
(* build and twice as wide on an ILP32 build: a value of that type is a    *)
(* pair [hi, lo] standing for hi * 2^31 + lo.                              *)
(***************************************************************************)
SIZE_T_MAX == (1073741824 - 1) + 1073741824

UINT_MAX == 2^UINT_BITS - 1

DataModels == {"LP64", "ILP32"}

\* a + b in size_t arithmetic
AddWrap(a, b) == IF a > SIZE_T_MAX - b THEN (a - (SIZE_T_MAX - b)) - 1 ELSE a + b

\* a * b in size_t arithmetic (shift and add, every step within the width)
RECURSIVE MulWrap(_, _)
MulWrap(a, b) ==
    IF b = 0 THEN 0
    ELSE LET h == MulWrap(AddWrap(a, a), b \div 2)
         IN  IF b % 2 = 1 THEN AddWrap(h, a) ELSE h

Min2(a, b) == IF a < b THEN a ELSE b

SetMin(S) == CHOOSE x \in S : \A y \in S : x <= y

(***************************************************************************)
(* C strings and the library routines the code parses them with.           *)
(***************************************************************************)
IsSpace(c) == c \in {" ", "\t", "\n"}

\* strchr: the index of the first c in s, 0 for a null pointer
StrChr(s, c) ==
    LET at == {i \in 1..Len(s) : s[i] = c}
    IN  IF at = {} THEN 0 ELSE SetMin(at)

\* the first index >= i that holds no white space (Len(s)+1 at the end)
SkipSpace(s, i) ==
    SetMin({j \in i..(Len(s) + 1) : j = Len(s) + 1 \/ ~IsSpace(s[j])})

\* the first index >= i that holds white space (Len(s)+1 at the end)
TokenEnd(s, i) ==
    SetMin({j \in i..(Len(s) + 1) : j = Len(s) + 1 \/ IsSpace(s[j])})

\* the first index >= i that holds c (Len(s)+1 at the end)
RunEnd(s, i, c) ==
    SetMin({j \in i..(Len(s) + 1) : j = Len(s) + 1 \/ s[j] = c})

\* the %s directive at index i: white space is skipped, then the characters
\* up to the next white space are read; it fails at the end of the input
ScanString(s, i) ==
    LET b == SkipSpace(s, i)
        e == TokenEnd(s, b)
    IN  IF b > Len(s) THEN [ok |-> FALSE, str |-> <<>>, next |-> b]
        ELSE [ok |-> TRUE, str |-> SubSeq(s, b, e - 1), next |-> e]

\* the %[^:] directive at index i: at least one character other than ':'
ScanNotColon(s, i) ==
    LET e == RunEnd(s, i, ":")
    IN  IF i > Len(s) \/ e = i THEN [ok |-> FALSE, str |-> <<>>, next |-> i]
        ELSE [ok |-> TRUE, str |-> SubSeq(s, i, e - 1), next |-> e]

\* strtok_s over the whole string: its tokens, in order, empty ones skipped
RECURSIVE StrTok(_, _)
StrTok(s, delim) ==
    IF s = <<>> THEN <<>>
    ELSE IF Head(s) = delim THEN StrTok(Tail(s), delim)
    ELSE LET e == RunEnd(s, 1, delim)
         IN  <<SubSeq(s, 1, e - 1)>> \o StrTok(SubSeq(s, e + 1, Len(s)), delim)

\* strncmp(s, prefix, Len(prefix)) == 0
StrNCmpEq(s, prefix) ==
    /\ Len(s) >= Len(prefix)
    /\ SubSeq(s, 1, Len(prefix)) = prefix

(***************************************************************************)
(* Pointers: <<>> is the null pointer, <<s>> points to the string s.       *)
(***************************************************************************)
NULL == <<>>

Ptr(s) == <<s>>

Deref(p) == p[1]

\* strcpy_s followed by strcat_s into a buffer of strlen(a)+strlen(b)+1
StrCat(a, b) == a \o b

(***************************************************************************)
(* The subsystem predicates handed to the two scans.                       *)
(***************************************************************************)
CGROUP == <<"c", "g", "r", "o", "u", "p">>

MEMORY == <<"m", "e", "m", "o", "r", "y">>

CPU == <<"c", "p", "u">>

IsMemorySubsystem(strTok) == strTok = MEMORY

IsCpuSubsystem(strTok) == strTok = CPU

\* the call is_subsystem(strTok) through the function pointer
is_subsystem(which, strTok) ==
    IF which = "memory" THEN IsMemorySubsystem(strTok) ELSE IsCpuSubsystem(strTok)

\* the strtok_s loop over a comma-separated list: some token satisfies the predicate
AnyTokenIsSubsystem(which, list) ==
    \E i \in 1..Len(StrTok(list, ",")) : is_subsystem(which, StrTok(list, ",")[i])

(***************************************************************************)
(* The three sscanf_s calls.  Each result carries sscanf's return value:   *)
(* the number of fields assigned, or -1 (EOF) when the input ends before   *)
(* the first conversion.                                                   *)
(***************************************************************************)
\* sscanf_s(separatorChar, "- %s %*s %s", filesystemType, options), where
\* separatorChar points at a '-'
ScanSeparator(sep) ==
    LET a == ScanString(sep, 2)
        b == ScanString(sep, a.next)
        c == ScanString(sep, b.next)
    IN  IF ~a.ok THEN [ret |-> -1, filesystemType |-> <<>>, options |-> <<>>]
        ELSE IF ~b.ok \/ ~c.ok
             THEN [ret |-> 1, filesystemType |-> a.str, options |-> <<>>]
        ELSE [ret |-> 2, filesystemType |-> a.str, options |-> c.str]

\* sscanf_s(line, "%*s %*s %*s %*s %s ", mountpath)
ScanMountPath(line) ==
    LET a == ScanString(line, 1)
        b == ScanString(line, a.next)
        c == ScanString(line, b.next)
        d == ScanString(line, c.next)
        e == ScanString(line, d.next)
    IN  IF a.ok /\ b.ok /\ c.ok /\ d.ok /\ e.ok
        THEN [ret |-> 1, mountpath |-> e.str]
        ELSE [ret |-> -1, mountpath |-> <<>>]

\* sscanf_s(line, "%*[^:]:%[^:]:%s", subsystem_list, cgroup_path)
ScanCGroupLine(line) ==
    LET a == ScanNotColon(line, 1)
        b == ScanNotColon(line, a.next + 1)
        c == ScanString(line, b.next + 1)
        none == [ret |-> 0, subsystem_list |-> <<>>, cgroup_path |-> <<>>]
    IN  IF line = <<>> THEN [none EXCEPT !.ret = -1]
        ELSE IF ~a.ok \/ a.next > Len(line) THEN none
        ELSE IF ~b.ok THEN none
        ELSE IF b.next > Len(line) \/ ~c.ok
             THEN [ret |-> 1, subsystem_list |-> b.str, cgroup_path |-> <<>>]
        ELSE [ret |-> 2, subsystem_list |-> b.str, cgroup_path |-> c.str]

\* getline: the capacity of the line buffer after reading line (the buffer
\* grows when the line and its terminator do not fit)
GetLineCapacity(lineLen, line) ==
    IF Len(line) + 1 > lineLen THEN Len(line) + 1 ELSE lineLen

(***************************************************************************)
(* The heap cells of the scratch buffers of the two scans.  A pointer is   *)
(* "null", "live" (it points to an allocated buffer) or "freed" (it still  *)
(* holds the address of a buffer that was freed).  err collects what the   *)
(* code did wrong with them.                                               *)
(***************************************************************************)
Buffers == {"filesystemType", "options", "mountpath", "subsystem_list", "cgroup_path"}

NoBuffers == [buf |-> [b \in Buffers |-> "null"], err |-> {}]

\* PAL_free(p): a no-op on a null pointer
PAL_free(h, b) ==
    IF h.buf[b] = "live" THEN [h EXCEPT !.buf[b] = "freed"]
    ELSE IF h.buf[b] = "freed" THEN [h EXCEPT !.err = @ \cup {<<"double free", b>>}]
    ELSE h

\* p = PAL_malloc(n), which succeeds (ok) or returns a null pointer
PAL_malloc(h, b, ok) ==
    [buf |-> [h.buf EXCEPT ![b] = IF ok THEN "live" ELSE "null"],
     err |-> h.err \cup (IF h.buf[b] = "live" THEN {<<"leak", b>>} ELSE {})]

\* p = nullptr
SetNull(h, b) ==
    [buf |-> [h.buf EXCEPT ![b] = "null"],
     err |-> h.err \cup (IF h.buf[b] = "live" THEN {<<"leak", b>>} ELSE {})]

\* a read or write through p
Access(h, b) ==
    IF h.buf[b] = "live" THEN h ELSE [h EXCEPT !.err = @ \cup {<<"bad access", b>>}]

(***************************************************************************)
(* One iteration of the loop of FindHierarchyMount on the line just read   *)
(* by getline.  okFs, okOpt and okMp are the outcomes of the three         *)
(* PAL_malloc calls; nullRead is what sscanf_s does with a null string     *)
(* (strchr found no '-'): the read through it crashes the process, or the  *)
(* routine rejects the pointer and returns EOF.  next is where control     *)
(* goes: round the loop again, to the label done, or nowhere.              *)
(***************************************************************************)
HierarchyMountLine(which, h, lineLen, maxLineLen, line, okFs, okOpt, okMp, nullRead) ==
    LET grow == h.buf["filesystemType"] = "null" \/ lineLen > maxLineLen
        h1 == IF grow
              THEN PAL_malloc(PAL_free(PAL_free(h, "filesystemType"), "options"),
                              "filesystemType", okFs)
              ELSE h
        h2 == IF grow /\ okFs THEN PAL_malloc(h1, "options", okOpt) ELSE h1
        allocated == ~grow \/ (okFs /\ okOpt)
        newMax == IF grow /\ allocated THEN lineLen ELSE maxLineLen
        separatorChar == StrChr(line, "-")
        sc == ScanSeparator(SubSeq(line, separatorChar, Len(line)))
        h3 == Access(Access(h2, "filesystemType"), "options")
        h4 == PAL_malloc(h3, "mountpath", okMp)
        mp == ScanMountPath(line)
        stop == [heap |-> h2, maxLineLen |-> newMax, mountpath |-> NULL,
                 next |-> "done", allocFailed |-> FALSE]
    IN  IF ~allocated THEN [stop EXCEPT !.allocFailed = TRUE]
        ELSE IF separatorChar = 0
             THEN [stop EXCEPT !.next = IF nullRead = "crash" THEN "crashed" ELSE "done"]
        ELSE IF sc.ret # 2 THEN [stop EXCEPT !.heap = h3]
        ELSE IF StrNCmpEq(sc.filesystemType, CGROUP) /\ AnyTokenIsSubsystem(which, sc.options)
             THEN IF ~okMp THEN [stop EXCEPT !.heap = h4, !.allocFailed = TRUE]
                  ELSE IF mp.ret # 1
                       THEN [stop EXCEPT !.heap = SetNull(PAL_free(h4, "mountpath"), "mountpath")]
                  ELSE [stop EXCEPT !.heap = h4, !.mountpath = Ptr(mp.mountpath)]
        ELSE [stop EXCEPT !.heap = h3, !.next = "loop"]

\* the label done of FindHierarchyMount: the buffers are released
HierarchyMountDone(h) == PAL_free(PAL_free(h, "filesystemType"), "options")

\* the loop of FindCGroupPathForSubsystem without the test of result: a
\* matching line does not end the scan
CGroupPathLine_NoStop(which, h, lineLen, maxLineLen, line, okSl, okCp) ==
    LET grow == h.buf["subsystem_list"] = "null" \/ lineLen > maxLineLen
        h1 == IF grow
              THEN PAL_malloc(PAL_free(PAL_free(h, "subsystem_list"), "cgroup_path"),
                              "subsystem_list", okSl)
              ELSE h
        h2 == IF grow /\ okSl THEN PAL_malloc(h1, "cgroup_path", okCp) ELSE h1
        allocated == ~grow \/ (okSl /\ okCp)
        newMax == IF grow /\ allocated THEN lineLen ELSE maxLineLen
        sc == ScanCGroupLine(line)
        h3 == Access(Access(h2, "subsystem_list"), "cgroup_path")
        stop == [heap |-> h2, maxLineLen |-> newMax, result |-> FALSE,
                 cgroup_path |-> NULL, next |-> "done", allocFailed |-> FALSE]
    IN  IF ~allocated THEN [stop EXCEPT !.allocFailed = TRUE]
        ELSE IF sc.ret # 2 THEN [stop EXCEPT !.heap = h3]
        ELSE IF AnyTokenIsSubsystem(which, sc.subsystem_list)
             THEN [stop EXCEPT !.heap = h3, !.result = TRUE, !.next = "loop",
                               !.cgroup_path = Ptr(sc.cgroup_path)]
        ELSE [stop EXCEPT !.heap = h3, !.next = "loop"]

(***************************************************************************)
(* One iteration of the loop of FindCGroupPathForSubsystem.  okSl and okCp *)
(* are the outcomes of the two PAL_malloc calls.  result is the flag the   *)
(* loop condition tests; cgroup_path is the text sscanf_s left in the      *)
(* buffer.                                                                 *)
(***************************************************************************)
CGroupPathLine(which, h, lineLen, maxLineLen, line, okSl, okCp) ==
    LET grow == h.buf["subsystem_list"] = "null" \/ lineLen > maxLineLen
        h1 == IF grow
              THEN PAL_malloc(PAL_free(PAL_free(h, "subsystem_list"), "cgroup_path"),
                              "subsystem_list", okSl)
              ELSE h
        h2 == IF grow /\ okSl THEN PAL_malloc(h1, "cgroup_path", okCp) ELSE h1
        allocated == ~grow \/ (okSl /\ okCp)
        newMax == IF grow /\ allocated THEN lineLen ELSE maxLineLen
        sc == ScanCGroupLine(line)
        h3 == Access(Access(h2, "subsystem_list"), "cgroup_path")
        stop == [heap |-> h2, maxLineLen |-> newMax, result |-> FALSE,
                 cgroup_path |-> NULL, next |-> "done", allocFailed |-> FALSE]
    IN  IF ~allocated THEN [stop EXCEPT !.allocFailed = TRUE]
        ELSE IF sc.ret # 2 THEN [stop EXCEPT !.heap = h3]
        ELSE IF AnyTokenIsSubsystem(which, sc.subsystem_list)
             THEN [stop EXCEPT !.heap = h3, !.result = TRUE,
                               !.cgroup_path = Ptr(sc.cgroup_path)]
        ELSE [stop EXCEPT !.heap = h3, !.next = "loop"]

\* the label done of FindCGroupPathForSubsystem
CGroupPathDone(h, result) ==
    LET h1 == PAL_free(h, "subsystem_list")
    IN  IF ~result THEN SetNull(PAL_free(h1, "cgroup_path"), "cgroup_path") ELSE h1

(***************************************************************************)
(* The tail of FindMemoryCgroupPath / FindCpuCgroupPath: the two parts are *)
(* joined into a new buffer (okJoin: its PAL_malloc succeeds) and both are *)
(* released.                                                               *)
(***************************************************************************)
FindCgroupPath(hierarchy_mount, path_relative_to_mount, okJoin) ==
    IF hierarchy_mount = NULL \/ path_relative_to_mount = NULL \/ ~okJoin THEN NULL
    ELSE Ptr(StrCat(Deref(hierarchy_mount), Deref(path_relative_to_mount)))

FindCgroupPathDone(h) == PAL_free(PAL_free(h, "mountpath"), "cgroup_path")

(***************************************************************************)
(* The inputs: lines of /proc/self/mountinfo and of /proc/self/cgroup,     *)
(* well-formed and malformed, from which the listings are drawn.  Each     *)
(* line ends with the newline getline keeps.                               *)
(***************************************************************************)
\* 2 1 8:2 / /a-b rw - ext4 d rw
MountDash ==
    <<"2", " ", "1", " ", "8", ":", "2", " ", "/", " ", "/", "a", "-", "b", " ", "r", "w", " ", "-", " ", "e", "x", "t", "4", " ", "d", " ", "r", "w", "\n">>

\* 3 1 0:3 / /m rw - cgroup cgroup rw,memory
MountMemory ==
    <<"3", " ", "1", " ", "0", ":", "3", " ", "/", " ", "/", "m", " ", "r", "w", " ", "-", " ", "c", "g", "r", "o", "u", "p", " ", "c", "g", "r", "o", "u", "p", " ", "r", "w", ",", "m", "e", "m", "o", "r", "y", "\n">>

\* 4 1 0:4 / /c rw s:1 - cgroup cgroup rw,cpu,cpuacct
MountCpu ==
    <<"4", " ", "1", " ", "0", ":", "4", " ", "/", " ", "/", "c", " ", "r", "w", " ", "s", ":", "1", " ", "-", " ", "c", "g", "r", "o", "u", "p", " ", "c", "g", "r", "o", "u", "p", " ", "r", "w", ",", "c", "p", "u", ",", "c", "p", "u", "a", "c", "c", "t", "\n">>

\* 5 1 0:5 /p-1 /k rw - cgroup cgroup rw,cpu,memory
MountBothDash ==
    <<"5", " ", "1", " ", "0", ":", "5", " ", "/", "p", "-", "1", " ", "/", "k", " ", "r", "w", " ", "-", " ", "c", "g", "r", "o", "u", "p", " ", "c", "g", "r", "o", "u", "p", " ", "r", "w", ",", "c", "p", "u", ",", "m", "e", "m", "o", "r", "y", "\n">>

\* 6 1 0:6 / /n rw
MountNoSeparator ==
    <<"6", " ", "1", " ", "0", ":", "6", " ", "/", " ", "/", "n", " ", "r", "w", "\n">>

\* 7 1 0:7 / /t rw - cgroup
MountNoOptions ==
    <<"7", " ", "1", " ", "0", ":", "7", " ", "/", " ", "/", "t", " ", "r", "w", " ", "-", " ", "c", "g", "r", "o", "u", "p", "\n">>

\* - cgroup c cpu,memory
MountNoPath ==
    <<"-", " ", "c", "g", "r", "o", "u", "p", " ", "c", " ", "c", "p", "u", ",", "m", "e", "m", "o", "r", "y", "\n">>

\* 8 1 - cgroup c cpu,memory
MountTruncated ==
    <<"8", " ", "1", " ", "-", " ", "c", "g", "r", "o", "u", "p", " ", "c", " ", "c", "p", "u", ",", "m", "e", "m", "o", "r", "y", "\n">>

\* 1:memory:/a
CGroupMemory ==
    <<"1", ":", "m", "e", "m", "o", "r", "y", ":", "/", "a", "\n">>

\* 2:cpu,cpuacct:/b
CGroupCpu ==
    <<"2", ":", "c", "p", "u", ",", "c", "p", "u", "a", "c", "c", "t", ":", "/", "b", "\n">>

\* 3:cpu,memory:/cd
CGroupBoth ==
    <<"3", ":", "c", "p", "u", ",", "m", "e", "m", "o", "r", "y", ":", "/", "c", "d", "\n">>

\* 4:name=s:/e
CGroupOther ==
    <<"4", ":", "n", "a", "m", "e", "=", "s", ":", "/", "e", "\n">>

\* 5:x
CGroupNoPath ==
    <<"5", ":", "x", "\n">>

\* 0::/f
CGroupEmptyList ==
    <<"0", ":", ":", "/", "f", "\n">>

MountLines ==
    {MountDash,
     MountMemory,
     MountCpu,
     MountBothDash,
     MountNoSeparator,
     MountNoOptions,
     MountNoPath,
     MountTruncated}

CGroupLines ==
    {CGroupMemory,
     CGroupCpu,
     CGroupBoth,
     CGroupOther,
     CGroupNoPath,
     CGroupEmptyList}

Listings(lines) == UNION {[1..n -> lines] : n \in 0..MaxLines}

(***************************************************************************)
(* The text of a control file's first line, as far as the parsers look at  *)
(* it.  A "number" line starts with the decimal number hi * 2^31 + lo,     *)
(* followed by the character suffix (the newline when nothing else         *)
(* follows); a "toobig" line starts with a number above ULLONG_MAX of      *)
(* every build; a "nodigits" line starts with the character first, which   *)
(* begins no number.                                                       *)
(***************************************************************************)
KILO == 1024

VIRTUAL_PAGE_SIZE == 4096

Suffixes == {"\n", "k", "K", "m", "M", "g", "G", "x"}

MemoryNumbers == {0, 1, 2, 2047, 2048, 2097151, 2097152, 536870912, SIZE_T_MAX}

MemoryTexts ==
    [kind : {"number"}, hi : {0, 1}, lo : MemoryNumbers, suffix : Suffixes]
    \cup [kind : {"nodigits"}, first : {"m", "x", "\n"}]
    \cup [kind : {"toobig"}]

\* strtoull(line, &endptr, 0).  The result is the pair [hi, lo]; errno is 0
\* unless the routine set it.  Without digits it returns 0 with endptr = line,
\* and whether it sets EINVAL is up to the C library (einval).
strtoull(dm, text, einval) ==
    IF text.kind = "number"
    THEN IF dm = "LP64" /\ text.hi > 0
         THEN [errno |-> "ERANGE", hi |-> 0, lo |-> SIZE_T_MAX, endptr |-> text.suffix]
         ELSE [errno |-> "0", hi |-> text.hi, lo |-> text.lo, endptr |-> text.suffix]
    ELSE IF text.kind = "toobig"
    THEN [errno |-> "ERANGE", hi |-> SIZE_T_MAX, lo |-> SIZE_T_MAX, endptr |-> "\n"]
    ELSE [errno |-> IF einval THEN "EINVAL" ELSE "0", hi |-> 0, lo |-> 0,
          endptr |-> text.first]

\* the switch on *endptr, whose cases fall through
Multiplier(c) ==
    LET afterG == IF c \in {"g", "G"} THEN KILO ELSE 1
        afterM == IF c \in {"g", "G", "m", "M"} THEN afterG * KILO ELSE afterG
    IN  IF c \in {"g", "G", "m", "M", "k", "K"} THEN afterM * KILO ELSE afterM

\* ReadMemoryValueFromFile from errno = 0 on, for a line that getline returned.
\* num is a size_t: the assignment keeps the low word of strtoull's result.
ReadMemoryValue(dm, text, einval) ==
    LET r == strtoull(dm, text, einval)
        num == r.lo
        multiplier == Multiplier(r.endptr)
        val == MulWrap(num, multiplier)
    IN  IF r.errno # "0" THEN [result |-> FALSE, val |-> 0]
        ELSE [result |-> (val \div multiplier = num), val |-> val]

\* the rest of PAL_GetRestrictedPhysicalMemoryLimit once GetPhysicalMemoryLimit
\* returned limit: rl is getrlimit's outcome, pages and pageSize are sysconf's
RestrictedPhysicalMemoryLimit(limit, rl, pages, pageSize) ==
    LET physical_memory_limit == IF limit.result THEN limit.val ELSE SIZE_T_MAX
        rlimit_soft_limit == IF rl.ok THEN rl.rlim_cur ELSE SIZE_T_MAX
        p1 == Min2(physical_memory_limit, rlimit_soft_limit)
        p2 == IF pages # -1 /\ pageSize # -1
              THEN Min2(p1, MulWrap(pages, pageSize))
              ELSE p1
    IN  IF p2 = SIZE_T_MAX THEN 0 ELSE p2

\* what getrlimit(RLIMIT_AS) and the two sysconf calls can answer.  On an LP64
\* build the physical memory, pages * pageSize, always fits a size_t; a 32-bit
\* process can run on a machine with more memory than its size_t can count.
RLimits ==
    {[ok |-> FALSE, rlim_cur |-> 0],
     [ok |-> TRUE, rlim_cur |-> SIZE_T_MAX],
     [ok |-> TRUE, rlim_cur |-> 268435456]}

PageCounts == {-1, 65536, 262144, 2097152}

PageSizes == {-1, 4096}

Fits(pages, pageSize) == pages <= SIZE_T_MAX \div pageSize

Environments(dm) ==
    {e \in [rlimit : RLimits, pages : PageCounts, pageSize : PageSizes] :
        (dm = "LP64" /\ e.pages # -1 /\ e.pageSize # -1) => Fits(e.pages, e.pageSize)}

(***************************************************************************)
(* The cpu control files and GetCpuLimit.                                  *)
(***************************************************************************)
CpuTexts ==
    [kind : {"number"}, value : {-1, 0, 1, 50000, 100000, 250000}]
    \cup [kind : {"nodigits"}]

\* atoll(line): 0 when the line starts with no number; errno is left alone
atoll(text) == IF text.kind = "number" THEN text.value ELSE 0

\* GetCpuLimit without the branch for less than one CPU
GetCpuLimit_NoMinimum(quota, period) ==
    IF quota <= 0 THEN [ok |-> FALSE, val |-> 0]
    ELSE IF period <= 0 THEN [ok |-> FALSE, val |-> 0]
    ELSE IF quota \div period < UINT_MAX THEN [ok |-> TRUE, val |-> quota \div period]
    ELSE [ok |-> TRUE, val |-> UINT_MAX]

\* GetCpuLimit, given what the two calls of ReadCpuCGroupValue return (the
\* second is made only when the first returned a positive quota)
GetCpuLimit(quota, period) ==
    IF quota <= 0 THEN [ok |-> FALSE, val |-> 0]
    ELSE IF period <= 0 THEN [ok |-> FALSE, val |-> 0]
    ELSE IF quota <= period THEN [ok |-> TRUE, val |-> 1]
    ELSE IF quota \div period < UINT_MAX THEN [ok |-> TRUE, val |-> quota \div period]
    ELSE [ok |-> TRUE, val |-> UINT_MAX]

(***************************************************************************)
(* /proc/self/statm and PAL_GetWorkingSetSize.  A statm line has one field *)
(* only, or a second field with the text second.                           *)
(***************************************************************************)
StatmTexts ==
    {[kind |-> "onefield"]}
    \cup [kind : {"fields"},
          second : [kind : {"number"}, hi : {0, 1}, lo : {0, 1, 100, 524288},
                    suffix : {" ", "\n"}]
                   \cup [kind : {"nodigits"}, first : {"x"}]
                   \cup [kind : {"toobig"}]]

\* PAL_GetWorkingSetSize on a line getline returned, when strtok_s found the
\* second field
WorkingSetSize(dm, second, einval) ==
    LET r == strtoull(dm, second, einval)
    IN  IF r.errno = "0"
        THEN [result |-> TRUE, val |-> MulWrap(r.lo, VIRTUAL_PAGE_SIZE)]
        ELSE [result |-> FALSE, val |-> r.lo]

(***************************************************************************)
(* The state.                                                              *)
(***************************************************************************)
VARIABLES
    dataModel,              \* the build: LP64 or ILP32
    pc,                     \* the statement control is at
    query,                  \* the public query running: memory, cpu or workingset
    subsys,                 \* the predicate of the discovery running: memory or cpu
    listing,                \* the lines of the file being scanned (<<>> if unreadable)
    pos,                    \* the number of lines getline has returned
    lineLen,                \* getline's buffer capacity
    maxLineLen,             \* the capacity the scratch buffers were allocated for
    heap,                   \* the scratch buffers of the scans
    mountpath,              \* FindHierarchyMount's result, then its caller's copy
    cgroup_path,            \* FindCGroupPathForSubsystem's result, then its caller's copy
    openFiles,              \* the FILE handles that are open
    allocFailed,            \* some PAL_malloc of the discovery running returned null
    m_memory_cgroup_path,   \* CGroup's members
    m_cpu_cgroup_path,
    text,                   \* what the file a reader has open holds
    limit,                  \* GetPhysicalMemoryLimit's result and *val
    env,                    \* what getrlimit and sysconf answered
    cpu,                    \* the texts of the two cpu files and the values read
    ret                     \* what the query returned

scanVars == <<listing, pos, lineLen, maxLineLen>>

memberVars == <<m_memory_cgroup_path, m_cpu_cgroup_path>>

scanState == <<subsys, scanVars, heap, mountpath, cgroup_path, allocFailed>>

discoveryVars == <<scanState, memberVars>>

\* ~CGroup: the query returns and its CGroup object goes away
Destroy ==
    /\ m_memory_cgroup_path' = NULL
    /\ m_cpu_cgroup_path' = NULL

readVars == <<text, limit, env, cpu, ret>>

Queries == {"memory", "cpu", "workingset"}

(***************************************************************************)
(* A public query is called.  The memory and cpu queries construct a       *)
(* CGroup first, whose constructor discovers the memory directory and then *)
(* the cpu directory.                                                      *)
(***************************************************************************)
Call(q) ==
    /\ pc = "idle"
    /\ query' = q
    /\ pc' = IF q = "workingset" THEN "ws_open" ELSE "fhm_open"
    /\ subsys' = "memory"
    /\ UNCHANGED <<dataModel, scanVars, heap, mountpath, cgroup_path, openFiles,
                   allocFailed, memberVars, readVars>>

(***************************************************************************)
(* FindHierarchyMount.                                                     *)
(***************************************************************************)
\* fopen(PROC_MOUNTINFO_FILENAME): a null handle goes straight to done
FHM_Open ==
    /\ pc = "fhm_open"
    /\ heap' = NoBuffers
    /\ allocFailed' = FALSE
    /\ mountpath' = NULL
    /\ cgroup_path' = NULL
    /\ pos' = 0
    /\ lineLen' = 0
    /\ maxLineLen' = 0
    /\ \/ /\ listing' = <<>>
          /\ openFiles' = openFiles
          /\ pc' = "fhm_done"
       \/ /\ listing' \in Listings(MountLines)
          /\ openFiles' = openFiles \cup {"mountinfofile"}
          /\ pc' = "fhm_loop"
    /\ UNCHANGED <<dataModel, query, subsys, memberVars, readVars>>

\* getline returns a line and the loop body runs on it
FHM_Line ==
    /\ pc = "fhm_loop"
    /\ pos < Len(listing)
    /\ \E okFs \in BOOLEAN, okOpt \in BOOLEAN, okMp \in BOOLEAN, nullRead \in {"crash", "EOF"} :
         LET line == listing[pos + 1]
             cap == GetLineCapacity(lineLen, line)
             r == HierarchyMountLine(subsys, heap, cap, maxLineLen, line,
                                     okFs, okOpt, okMp, nullRead)
         IN  /\ pos' = pos + 1
             /\ lineLen' = cap
             /\ maxLineLen' = r.maxLineLen
             /\ heap' = r.heap
             /\ mountpath' = r.mountpath
             /\ allocFailed' = r.allocFailed
             /\ pc' = IF r.next = "loop" THEN "fhm_loop"
                      ELSE IF r.next = "done" THEN "fhm_done" ELSE "crashed"
    /\ UNCHANGED <<dataModel, query, subsys, listing, cgroup_path, openFiles, memberVars, readVars>>

\* getline returns -1 at the end of the file
FHM_Eof ==
    /\ pc = "fhm_loop"
    /\ pos = Len(listing)
    /\ pc' = "fhm_done"
    /\ UNCHANGED <<dataModel, query, subsys, scanVars, heap, mountpath, cgroup_path,
                   openFiles, allocFailed, memberVars, readVars>>

\* the label done: the buffers and the line are freed, the file is closed, and
\* mountpath is returned.  Freeing a buffer twice is undefined: the allocator
\* aborts the process or goes on.
FHM_Done ==
    /\ pc = "fhm_done"
    /\ heap' = HierarchyMountDone(heap)
    /\ openFiles' = openFiles \ {"mountinfofile"}
    /\ lineLen' = 0
    /\ maxLineLen' = 0
    /\ pos' = 0
    /\ \/ pc' = "fhm_ret"
       \/ /\ heap'.err # {}
          /\ pc' = "crashed"
    /\ UNCHANGED <<dataModel, query, subsys, listing, mountpath, cgroup_path,
                   allocFailed, memberVars, readVars>>

(***************************************************************************)
(* FindCGroupPathForSubsystem.                                             *)
(***************************************************************************)
\* FindMemoryCgroupPath / FindCpuCgroupPath go on to the second scan when the
\* first returned a mount, and fopen(PROC_CGROUP_FILENAME) is called
FCP_Open ==
    /\ pc = "fhm_ret"
    /\ mountpath # NULL
    /\ cgroup_path' = NULL
    /\ \/ /\ listing' = <<>>
          /\ openFiles' = openFiles
          /\ pc' = "fcp_done"
       \/ /\ listing' \in Listings(CGroupLines)
          /\ openFiles' = openFiles \cup {"cgroupfile"}
          /\ pc' = "fcp_loop"
    /\ UNCHANGED <<dataModel, query, subsys, pos, lineLen, maxLineLen, heap, mountpath,
                   allocFailed, memberVars, readVars>>

FCP_Line ==
    /\ pc = "fcp_loop"
    /\ pos < Len(listing)
    /\ \E okSl \in BOOLEAN, okCp \in BOOLEAN :
         LET line == listing[pos + 1]
             cap == GetLineCapacity(lineLen, line)
             r == CGroupPathLine(subsys, heap, cap, maxLineLen, line, okSl, okCp)
         IN  /\ pos' = pos + 1
             /\ lineLen' = cap
             /\ maxLineLen' = r.maxLineLen
             /\ heap' = r.heap
             /\ cgroup_path' = r.cgroup_path
             /\ allocFailed' = (allocFailed \/ r.allocFailed)
             /\ pc' = IF r.next = "loop" THEN "fcp_loop" ELSE "fcp_done"
    /\ UNCHANGED <<dataModel, query, subsys, listing, mountpath, openFiles, memberVars, readVars>>

FCP_Eof ==
    /\ pc = "fcp_loop"
    /\ pos = Len(listing)
    /\ pc' = "fcp_done"
    /\ UNCHANGED <<dataModel, query, subsys, scanVars, heap, mountpath, cgroup_path,
                   openFiles, allocFailed, memberVars, readVars>>

\* the label done; result is true exactly when the loop left a path behind
FCP_Done ==
    /\ pc = "fcp_done"
    /\ heap' = CGroupPathDone(heap, cgroup_path # NULL)
    /\ openFiles' = openFiles \ {"cgroupfile"}
    /\ lineLen' = 0
    /\ maxLineLen' = 0
    /\ pos' = 0
    /\ \/ pc' = "fcp_ret"
       \/ /\ heap'.err # {}
          /\ pc' = "crashed"
    /\ UNCHANGED <<dataModel, query, subsys, listing, mountpath, cgroup_path,
                   allocFailed, memberVars, readVars>>

(***************************************************************************)
(* The tail of FindMemoryCgroupPath / FindCpuCgroupPath, and the return of *)
(* the constructor to the query once both members are set.                 *)
(***************************************************************************)
FindCgroupPath_Done ==
    /\ \/ pc = "fhm_ret" /\ mountpath = NULL
       \/ pc = "fcp_ret"
    /\ \E okJoin \in BOOLEAN :
         LET path == FindCgroupPath(mountpath, cgroup_path, okJoin)
         IN  /\ IF subsys = "memory"
                THEN /\ m_memory_cgroup_path' = path
                     /\ m_cpu_cgroup_path' = m_cpu_cgroup_path
                ELSE /\ m_cpu_cgroup_path' = path
                     /\ m_memory_cgroup_path' = m_memory_cgroup_path
             /\ allocFailed' = (allocFailed \/ (mountpath # NULL /\ cgroup_path # NULL /\ ~okJoin))
    /\ heap' = FindCgroupPathDone(heap)
    /\ mountpath' = NULL
    /\ cgroup_path' = NULL
    /\ listing' = <<>>
    /\ IF subsys = "memory"
       THEN /\ subsys' = "cpu"
            /\ pc' = "fhm_open"
       ELSE /\ subsys' = subsys
            /\ pc' = IF query = "memory" THEN "mem_limit" ELSE "cpu_limit"
    /\ UNCHANGED <<dataModel, query, pos, lineLen, maxLineLen, openFiles, readVars>>

(***************************************************************************)
(* PAL_GetRestrictedPhysicalMemoryLimit after the constructor.             *)
(***************************************************************************)
Unread == [kind |-> "unread"]

NoValue == [result |-> FALSE, val |-> 0]

\* GetPhysicalMemoryLimit up to the call of ReadMemoryValueFromFile (okName:
\* the PAL_malloc of the file name succeeds)
GetPhysicalMemoryLimit_Enter ==
    /\ pc = "mem_limit"
    /\ text' = Unread
    /\ \E okName \in BOOLEAN :
         IF m_memory_cgroup_path = NULL \/ ~okName
         THEN /\ limit' = NoValue
              /\ pc' = "mem_compose"
         ELSE /\ limit' = limit
              /\ pc' = "rmv_open"
    /\ UNCHANGED <<dataModel, query, discoveryVars, openFiles, env, cpu, ret>>

\* ReadMemoryValueFromFile: fopen
RMV_Open ==
    /\ pc = "rmv_open"
    /\ \/ /\ text' = [kind |-> "unreadable"]
          /\ openFiles' = openFiles
          /\ limit' = NoValue
          /\ pc' = "rmv_done"
       \/ /\ text' \in MemoryTexts \cup {[kind |-> "empty"]}
          /\ openFiles' = openFiles \cup {"file"}
          /\ limit' = limit
          /\ pc' = "rmv_read"
    /\ UNCHANGED <<dataModel, query, discoveryVars, env, cpu, ret>>

\* ReadMemoryValueFromFile: getline, which returns -1 on an empty file, and the parse
RMV_Read ==
    /\ pc = "rmv_read"
    /\ IF text.kind = "empty"
       THEN limit' = NoValue
       ELSE \E einval \in BOOLEAN : limit' = ReadMemoryValue(dataModel, text, einval)
    /\ pc' = "rmv_done"
    /\ UNCHANGED <<dataModel, query, discoveryVars, openFiles, text, env, cpu, ret>>

\* ReadMemoryValueFromFile returning from a failed read without fclose
RMV_Done_NoCloseOnFailure ==
    /\ pc = "rmv_done"
    /\ openFiles' = IF limit.result THEN openFiles \ {"file"} ELSE openFiles
    /\ text' = Unread
    /\ pc' = "mem_compose"
    /\ UNCHANGED <<dataModel, query, discoveryVars, limit, env, cpu, ret>>

\* ReadMemoryValueFromFile: the label done, and the return through GetPhysicalMemoryLimit
RMV_Done ==
    /\ pc = "rmv_done"
    /\ openFiles' = openFiles \ {"file"}
    /\ text' = Unread
    /\ pc' = "mem_compose"
    /\ UNCHANGED <<dataModel, query, discoveryVars, limit, env, cpu, ret>>

\* the minimum with the resource limit and the physical memory, and the return
RestrictedPhysicalMemoryLimit_Return ==
    /\ pc = "mem_compose"
    /\ \E e \in Environments(dataModel) :
         /\ env' = e
         /\ ret' = [ok |-> TRUE,
                    val |-> RestrictedPhysicalMemoryLimit(limit, e.rlimit, e.pages, e.pageSize)]
    /\ pc' = "returned"
    /\ Destroy
    /\ UNCHANGED <<dataModel, query, scanState, openFiles, text, limit, cpu>>

(***************************************************************************)
(* PAL_GetCpuLimit after the constructor.                                  *)
(***************************************************************************)
\* the null check of val, after which GetCpuLimit starts with the quota
PAL_GetCpuLimit_Enter ==
    /\ pc = "cpu_limit"
    /\ \E valNull \in BOOLEAN :
         IF valNull
         THEN /\ ret' = [ok |-> FALSE, val |-> 0]
              /\ pc' = "returned"
              /\ Destroy
         ELSE /\ ret' = ret
              /\ pc' = "cpu_read"
              /\ UNCHANGED memberVars
    /\ UNCHANGED <<dataModel, query, scanState, openFiles, text, limit, env, cpu>>

\* GetCpuLimit goes on with the value v that ReadCpuCGroupValue returned for
\* the file whose text was t
GetCpuLimit_Continue(v, t) ==
    IF cpu.stage = "quota"
    THEN /\ cpu' = [cpu EXCEPT !.quota = v, !.quotaText = t, !.stage = "period"]
         /\ IF v <= 0
            THEN /\ ret' = [ok |-> GetCpuLimit(v, 0).ok, val |-> 0]
                 /\ pc' = "returned"
                 /\ Destroy
            ELSE /\ ret' = ret
                 /\ pc' = "cpu_read"
                 /\ UNCHANGED memberVars
    ELSE /\ cpu' = [cpu EXCEPT !.period = v, !.periodText = t, !.stage = "done"]
         /\ ret' = GetCpuLimit(cpu.quota, v)
         /\ pc' = "returned"
         /\ Destroy

\* ReadCpuCGroupValue up to the call of ReadLongLongValueFromFile; it returns
\* -1 when the directory is unknown or the file name cannot be allocated
ReadCpuCGroupValue_Enter ==
    /\ pc = "cpu_read"
    /\ text' = Unread
    /\ \E okName \in BOOLEAN :
         IF m_cpu_cgroup_path = NULL \/ ~okName
         THEN GetCpuLimit_Continue(-1, Unread)
         ELSE /\ pc' = "rll_open"
              /\ UNCHANGED <<cpu, ret, memberVars>>
    /\ UNCHANGED <<dataModel, query, scanState, openFiles, limit, env>>

\* ReadLongLongValueFromFile: fopen
RLL_Open ==
    /\ pc = "rll_open"
    /\ \/ /\ text' = [kind |-> "unreadable"]
          /\ openFiles' = openFiles
          /\ pc' = "rll_done"
       \/ /\ text' \in CpuTexts \cup {[kind |-> "empty"]}
          /\ openFiles' = openFiles \cup {"file"}
          /\ pc' = "rll_read"
    /\ cpu' = [cpu EXCEPT !.result = FALSE, !.val = 0]
    /\ UNCHANGED <<dataModel, query, discoveryVars, limit, env, ret>>

\* ReadLongLongValueFromFile: getline and atoll
RLL_Read ==
    /\ pc = "rll_read"
    /\ cpu' = IF text.kind = "empty" THEN cpu
              ELSE [cpu EXCEPT !.result = TRUE, !.val = atoll(text)]
    /\ pc' = "rll_done"
    /\ UNCHANGED <<dataModel, query, discoveryVars, openFiles, text, limit, env, ret>>

\* ReadLongLongValueFromFile: the label done; ReadCpuCGroupValue turns a
\* failed read into -1 and GetCpuLimit goes on
RLL_Done ==
    /\ pc = "rll_done"
    /\ openFiles' = openFiles \ {"file"}
    /\ GetCpuLimit_Continue(IF cpu.result THEN cpu.val ELSE -1, text)
    /\ UNCHANGED <<dataModel, query, scanState, text, limit, env>>

(***************************************************************************)
(* PAL_GetWorkingSetSize.                                                  *)
(***************************************************************************)
\* the null check of val and fopen(PROC_STATM_FILENAME)
WS_Open ==
    /\ pc = "ws_open"
    /\ \/ /\ text' = Unread
          /\ openFiles' = openFiles
          /\ pc' = "returned"
       \/ /\ text' = [kind |-> "unreadable"]
          /\ openFiles' = openFiles
          /\ pc' = "ws_done"
       \/ /\ text' \in StatmTexts \cup {[kind |-> "empty"]}
          /\ openFiles' = openFiles \cup {"file"}
          /\ pc' = "ws_read"
    /\ ret' = [ok |-> FALSE, val |-> 0]
    /\ UNCHANGED <<dataModel, query, discoveryVars, limit, env, cpu>>

\* getline, the two strtok_s calls and strtoull.  With one field only the
\* second strtok_s returns a null pointer, and strtoull reads through it: the
\* process crashes, or the routine rejects the pointer and sets errno.
WS_Read ==
    /\ pc = "ws_read"
    /\ \/ /\ text.kind = "empty"
          /\ ret' = ret
          /\ pc' = "ws_done"
       \/ /\ text.kind = "onefield"
          /\ ret' = ret
          /\ pc' \in {"crashed", "ws_done"}
       \/ /\ text.kind = "fields"
          /\ \E einval \in BOOLEAN :
               LET r == WorkingSetSize(dataModel, text.second, einval)
               IN  ret' = [ok |-> r.result, val |-> r.val]
          /\ pc' = "ws_done"
    /\ UNCHANGED <<dataModel, query, discoveryVars, openFiles, text, limit, env, cpu>>

\* fclose, free and return
WS_Done ==
    /\ pc = "ws_done"
    /\ openFiles' = openFiles \ {"file"}
    /\ pc' = "returned"
    /\ UNCHANGED <<dataModel, query, discoveryVars, text, limit, env, cpu, ret>>

Init ==
    /\ dataModel \in DataModels
    /\ pc = "idle"
    /\ query = "none"
    /\ subsys = "memory"
    /\ listing = <<>>
    /\ pos = 0
    /\ lineLen = 0
    /\ maxLineLen = 0
    /\ heap = NoBuffers
    /\ mountpath = NULL
    /\ cgroup_path = NULL
    /\ openFiles = {}
    /\ allocFailed = FALSE
    /\ m_memory_cgroup_path = NULL
    /\ m_cpu_cgroup_path = NULL
    /\ text = Unread
    /\ limit = NoValue
    /\ env = [rlimit |-> [ok |-> FALSE, rlim_cur |-> 0], pages |-> -1, pageSize |-> -1]
    /\ cpu = [stage |-> "quota", quotaText |-> Unread, periodText |-> Unread,
              quota |-> 0, period |-> 0, result |-> FALSE, val |-> 0]
    /\ ret = [ok |-> FALSE, val |-> 0]

vars == <<dataModel, pc, query, subsys, listing, pos, lineLen, maxLineLen, heap,
          mountpath, cgroup_path, openFiles, allocFailed, m_memory_cgroup_path,
          m_cpu_cgroup_path, text, limit, env, cpu, ret>>

Next ==
    \/ \E q \in Queries : Call(q)
    \/ FHM_Open
    \/ FHM_Line
    \/ FHM_Eof
    \/ FHM_Done
    \/ FCP_Open
    \/ FCP_Line
    \/ FCP_Eof
    \/ FCP_Done
    \/ FindCgroupPath_Done
    \/ GetPhysicalMemoryLimit_Enter
    \/ RMV_Open
    \/ RMV_Read
    \/ RMV_Done
    \/ RestrictedPhysicalMemoryLimit_Return
    \/ PAL_GetCpuLimit_Enter
    \/ ReadCpuCGroupValue_Enter
    \/ RLL_Open
    \/ RLL_Read
    \/ RLL_Done
    \/ WS_Open
    \/ WS_Read
    \/ WS_Done

Spec == Init /\ [][Next]_vars

(***************************************************************************)
(* What the specification says of the two listings, stated on the fields   *)
(* of a line and not on the way the code scans it.                         *)
(***************************************************************************)
\* the white-space delimited fields of a line from index i on
RECURSIVE FieldsFrom(_, _)
FieldsFrom(s, i) ==
    LET f == ScanString(s, i)
    IN  IF f.ok THEN <<f.str>> \o FieldsFrom(s, f.next) ELSE <<>>

Fields(s) == FieldsFrom(s, 1)

\* the separator of a mountinfo line: the first field "-" after the six fixed
\* fields and the optional ones (0 when there is none)
SeparatorField(f) ==
    LET at == {i \in 7..Len(f) : f[i] = <<"-">>}
    IN  IF at = {} THEN 0 ELSE SetMin(at)

\* proc(5): six fields, optional fields, the separator, then the filesystem
\* type, the mount source and the options
WellFormedMountLine(line) ==
    LET f == Fields(line)
    IN  /\ SeparatorField(f) # 0
        /\ Len(f) >= SeparatorField(f) + 3

Contains(list, name) == \E i \in 1..Len(StrTok(list, ",")) : StrTok(list, ",")[i] = name

SubsystemName(which) == IF which = "memory" THEN MEMORY ELSE CPU

MountLineMatches(which, line) ==
    LET f == Fields(line)
        sep == SeparatorField(f)
    IN  /\ StrNCmpEq(f[sep + 1], CGROUP)
        /\ Contains(f[sep + 3], SubsystemName(which))

\* the mount path of the first matching line of a well-formed listing
ExpectedMount(which, lines) ==
    LET at == {i \in 1..Len(lines) : MountLineMatches(which, lines[i])}
    IN  IF at = {} THEN NULL ELSE Ptr(Fields(lines[SetMin(at)])[5])

\* <id>:<subsystem-list>:<path>, none of the three empty
CGroupLineParts(line) ==
    LET c1 == RunEnd(line, 1, ":")
        c2 == RunEnd(line, c1 + 1, ":")
        rest == SubSeq(line, c2 + 1, Len(line))
    IN  [ok |-> /\ 1 < c1
                /\ c1 + 1 < c2
                /\ c2 <= Len(line)
                /\ Len(Fields(rest)) = 1,
         list |-> SubSeq(line, c1 + 1, c2 - 1),
         path |-> IF c2 <= Len(line) /\ Fields(rest) # <<>> THEN Fields(rest)[1] ELSE <<>>]

WellFormedCGroupLine(line) == CGroupLineParts(line).ok

CGroupLineMatches(which, line) ==
    Contains(CGroupLineParts(line).list, SubsystemName(which))

FirstCGroupMatch(which, lines) ==
    LET at == {i \in 1..Len(lines) : CGroupLineMatches(which, lines[i])}
    IN  IF at = {} THEN 0 ELSE SetMin(at)

ExpectedCGroupPath(which, lines) ==
    IF FirstCGroupMatch(which, lines) = 0 THEN NULL
    ELSE Ptr(CGroupLineParts(lines[FirstCGroupMatch(which, lines)]).path)

AllLines(lines, P(_)) == \A i \in 1..Len(lines) : P(lines[i])

(***************************************************************************)
(* The claims.                                                             *)
(***************************************************************************)
ScanReturned(at) == pc = at /\ ~allocFailed

\* the bounds on the limit that are known when the memory query returns
KnownBounds ==
    (IF limit.result THEN {limit.val} ELSE {})
    \cup (IF env.rlimit.ok /\ env.rlimit.rlim_cur # SIZE_T_MAX THEN {env.rlimit.rlim_cur} ELSE {})
    \cup (IF env.pages # -1 /\ env.pageSize # -1 /\ Fits(env.pages, env.pageSize)
          THEN {env.pages * env.pageSize} ELSE {})

\* the physical memory is known and is more than a size_t counts
PhysicalMemoryAboveAll == env.pages # -1 /\ env.pageSize # -1 /\ ~Fits(env.pages, env.pageSize)

\* C1: PAL_GetRestrictedPhysicalMemoryLimit returns the minimum of the bounds
\* that are known (the cgroup limit when GetPhysicalMemoryLimit succeeds, the
\* finite RLIMIT_AS soft limit, pages x page size when both sysconf calls
\* succeed), and 0 when none is known.
C1_MinimumOfKnownBounds ==
    (pc = "returned" /\ query = "memory") =>
        IF KnownBounds # {} THEN ret.val = SetMin(KnownBounds)
        ELSE ~PhysicalMemoryAboveAll /\ ret.val = 0

PositiveNumber(t) == t.kind = "number" /\ t.value > 0

\* C2: the cpu query fails when the quota or the period is missing or <= 0;
\* otherwise it succeeds with 1 when quota <= period and with
\* floor(quota / period), clamped to UINT_MAX, when quota > period, so that
\* every successful result is >= 1.
C2_CpuLimit ==
    (pc = "returned" /\ query = "cpu") =>
        /\ ret.ok <=> (PositiveNumber(cpu.quotaText) /\ PositiveNumber(cpu.periodText))
        /\ ret.ok =>
             /\ ret.val >= 1
             /\ ret.val = IF cpu.quotaText.value <= cpu.periodText.value THEN 1
                          ELSE Min2(cpu.quotaText.value \div cpu.periodText.value, UINT_MAX)

\* a successful cpu query whose quotient was clamped
C2_Witness ==
    /\ pc = "returned"
    /\ query = "cpu"
    /\ ret.ok
    /\ cpu.quota \div cpu.period > UINT_MAX
    /\ ret.val = UINT_MAX

\* C3: on a listing of well-formed mountinfo lines FindHierarchyMount returns
\* the mount path (fifth field) of the first line whose filesystem type begins
\* with "cgroup" and whose options hold the subsystem as a comma-separated
\* token, whatever characters ('-' included) the fields hold, and not-found
\* when no line matches or the listing is unreadable.
C3_HierarchyMount ==
    (ScanReturned("fhm_ret") /\ AllLines(listing, WellFormedMountLine)) =>
        mountpath = ExpectedMount(subsys, listing)

\* C4: on a listing of well-formed /proc/self/cgroup lines
\* FindCGroupPathForSubsystem returns the path of the first line whose
\* subsystem list holds a matching token, stops reading at that line, and
\* returns not-found when no line matches or the file is unreadable.
C4_FirstMatchWins ==
    /\ (ScanReturned("fcp_ret") /\ AllLines(listing, WellFormedCGroupLine)) =>
           cgroup_path = ExpectedCGroupPath(subsys, listing)
    /\ (ScanReturned("fcp_done") /\ AllLines(listing, WellFormedCGroupLine)) =>
           pos = IF FirstCGroupMatch(subsys, listing) = 0 THEN Len(listing)
                 ELSE FirstCGroupMatch(subsys, listing)

\* the scan returned the path of the first of two matching lines with different paths
C4_Witness ==
    /\ ScanReturned("fcp_ret")
    /\ Len(listing) = 2
    /\ AllLines(listing, WellFormedCGroupLine)
    /\ CGroupLineMatches(subsys, listing[1])
    /\ CGroupLineMatches(subsys, listing[2])
    /\ CGroupLineParts(listing[1]).path # CGroupLineParts(listing[2]).path
    /\ cgroup_path = Ptr(CGroupLineParts(listing[1]).path)

\* the multiplier the specification gives a suffix
UnitOf(c) ==
    IF c \in {"k", "K"} THEN 1024
    ELSE IF c \in {"m", "M"} THEN 1024 * 1024
    ELSE IF c \in {"g", "G"} THEN 1024 * 1024 * 1024
    ELSE 1

\* n x multiplier is more than SIZE_T_MAX, for the number n of a text
Overflows(t) == t.hi > 0 \/ t.lo > SIZE_T_MAX \div UnitOf(t.suffix)

\* C5: ReadMemoryValueFromFile computes n x multiplier (1, 1024, 1024^2,
\* 1024^3 for no suffix, k, m, g); it fails whenever the product is more than
\* SIZE_T_MAX and succeeds with the exact product whenever it is not.
C5_OverflowDetected ==
    (pc = "rmv_done" /\ text.kind = "number") =>
        IF Overflows(text) THEN ~limit.result
        ELSE limit.result /\ limit.val = text.lo * UnitOf(text.suffix)

\* C6: ReadMemoryValueFromFile fails, and GetPhysicalMemoryLimit reports no
\* limit, whenever the file is unreadable or empty or its first line does not
\* begin with a number.
C6_MalformedFails ==
    (pc = "rmv_done" /\ text.kind \in {"unreadable", "empty", "nodigits"}) => ~limit.result

\* C7: PAL_GetWorkingSetSize succeeds with the second field x page size; with
\* an unreadable file, an absent second field or a field that is no number it
\* returns failure, and it never crashes.
C7_WorkingSet ==
    query = "workingset" =>
        /\ pc # "crashed"
        /\ pc = "ws_done" =>
             IF text.kind = "fields" /\ text.second.kind = "number"
                /\ text.second.hi = 0 /\ Fits(text.second.lo, VIRTUAL_PAGE_SIZE)
             THEN ret.ok /\ ret.val = text.second.lo * VIRTUAL_PAGE_SIZE
             ELSE (text.kind \in {"unreadable", "empty", "onefield"}
                   \/ (text.kind = "fields" /\ text.second.kind = "nodigits")) => ~ret.ok

\* C8: when FindHierarchyMount meets a malformed line, the scan stops and
\* returns not-found: no mount path comes from that line and the process does
\* not crash.
C8_FailClosed ==
    (pc \in {"fhm_loop", "fhm_done", "crashed"} /\ pos > 0
     /\ ~WellFormedMountLine(listing[pos])) =>
        pc = "fhm_done" /\ mountpath = NULL

ReadPcs ==
    {"fhm_loop", "fhm_done", "fcp_loop", "fcp_done", "rmv_read", "rmv_done",
     "rll_read", "rll_done", "ws_read", "ws_done"}

\* C9: every file handle a read operation opens is closed before the operation
\* returns, on success and on every failure path: outside the read operations
\* no handle is open, and none is when a query returns.
C9_HandlesClosed ==
    /\ pc \notin (ReadPcs \cup {"crashed"}) => openFiles = {}
    /\ Cardinality(openFiles) <= 1

\* the memory query returned after reading all three files
C9_Witness ==
    /\ pc = "returned"
    /\ query = "memory"
    /\ limit.result
    /\ openFiles = {}

\* C10: in both scans every scratch buffer is freed exactly once, whatever
\* lines are read and whichever PAL_malloc fails: none is freed twice, leaked,
\* or used or returned after it was freed, and a failed allocation only makes
\* the scan return not-found.
C10_BuffersFreedOnce ==
    /\ heap.err = {}
    /\ pc = "fhm_ret" =>
         /\ heap.buf["filesystemType"] # "live"
         /\ heap.buf["options"] # "live"
         /\ (mountpath # NULL) <=> (heap.buf["mountpath"] = "live")
         /\ allocFailed => mountpath = NULL
    /\ pc = "fcp_ret" =>
         /\ heap.buf["subsystem_list"] # "live"
         /\ (cgroup_path # NULL) <=> (heap.buf["cgroup_path"] = "live")
         /\ allocFailed => cgroup_path = NULL

====
